---- MODULE Spec2Model ----
(***************************************************************************)
(* A model of rust-photorec's core: the segment map (segment_tree.rs), the *)
(* segment-array tree (segment_array_tree.rs), the file description with   *)
(* its positioned reader (file_description.rs) and the stream reader       *)
(* (reader.rs).                                                            *)
(***************************************************************************)
EXTENDS Integers, Sequences, FiniteSets, TLC

\* ------------------------------------------------------------------ bounds
\* Keys of the segment map are 0..MaxKey.
MaxKey == 4
\* Payloads of the segment map (SegmentTree alone) are 0..MaxVal.
MaxVal == 1
\* A description holds at most MaxSegs elements.
MaxSegs == 2
\* A SegmentArrayTree is followed until it holds MaxDescs descriptions.
MaxDescs == 2
\* FileDescription::new is handed at most MaxRuns runs.
MaxRuns == 3
\* A read is handed a buffer of 1..MaxBuf bytes.
MaxBuf == 2

VARIABLES
    tree,            \* SegmentTree.0 : BTreeMap<K, SegmentValue<V>>
    stored,          \* the segments whose insert returned Ok(None), not removed since
    segment_arrays,  \* SegmentArrayTree.segment_arrays
    sats,            \* photorec-merge: the list of SegmentArrayTrees, empty before main
    ret,             \* the last call: its name, arguments and result
    input,           \* the arguments of FileDescription::new: size and runs
    file,            \* the Result of FileDescription::new, None before the call
    describer,       \* ByteRunsReader.describer: a FileDescriptionPos, None before
    out,             \* the bytes the reads have delivered, each named by its disk position
    n_ret,           \* what the last ByteRunsReader::read returned, None before
    overflow_checks  \* the build: arithmetic overflow panics (TRUE) or wraps (FALSE)

stVars == <<tree, stored>>
satVars == <<segment_arrays, sats>>
fdVars == <<input, file, describer, out, n_ret, overflow_checks>>
vars ==
    <<tree, stored, segment_arrays, sats, ret, input, file, describer, out, n_ret,
      overflow_checks>>

\* ------------------------------------------------------------ Option / Result
None == <<>>
Some(x) == <<x>>
Unwrap(o) == o[1]

\* No file description is under construction and no reader is open.
FdIdle ==
    /\ overflow_checks = FALSE
    /\ input = None
    /\ file = None
    /\ describer = None
    /\ out = <<>>
    /\ n_ret = None

\* --------------------------------------------------------------- Segment<T>
Keys == 0..MaxKey
Vals == 0..MaxVal

\* Segment::new asserts start < end.
Segment == {[start |-> s, end |-> e] : <<s, e>> \in {p \in Keys \X Keys : p[1] < p[2]}}

Seg(s, e) == [start |-> s, end |-> e]

\* ------------------------------------------------------------ SegmentValue<V>
Start == [kind |-> "Start", v |-> None]
End(x) == [kind |-> "End", v |-> Some(x)]
EndStart(x) == [kind |-> "EndStart", v |-> Some(x)]

\* BTreeMap::insert / BTreeMap::remove on the anchor map.
MapPut(t, k, a) == [x \in (DOMAIN t) \cup {k} |-> IF x = k THEN a ELSE t[x]]
MapDel(t, k) == [x \in (DOMAIN t) \ {k} |-> t[x]]
EmptyMap == [x \in {} |-> Start]

\* The keys of a BTreeMap range, in key order.
RECURSIVE SortKeys(_)
SortKeys(S) ==
    IF S = {} THEN <<>>
    ELSE LET m == CHOOSE x \in S : \A y \in S : x <= y
         IN <<m>> \o SortKeys(S \ {m})

\* self.0.range(seg.get_range()): RefRangeInclusive, both ends included.
get_range(t, seg) == SortKeys({k \in DOMAIN t : seg.start <= k /\ k <= seg.end})

\* A panicking branch is a result of its own: the call never returns.
Panic == [tag |-> "Panic", val |-> None]
Missing == [tag |-> "Missing", val |-> None]
Found(x) == [tag |-> "Found", val |-> Some(x)]
Intersect(p) == [tag |-> "Intersect", val |-> Some(p)]

\* macro impl_segment: the classification of seg against the anchors in
\* [seg.start, seg.end], arm by arm.
impl_segment(t, seg) ==
    LET iter == get_range(t, seg)
        n == Len(iter)
        key(i) == iter[i]
        kind(i) == t[iter[i]].kind
    IN  IF n = 0 THEN Missing
        ELSE IF kind(1) \in {"Start", "EndStart"} /\ key(1) = seg.start THEN
            IF n >= 2 /\ kind(2) \in {"End", "EndStart"} /\ key(2) = seg.end
            THEN IF n = 2 THEN Found(Unwrap(t[key(2)].v)) ELSE Panic
            ELSE Intersect(key(1))
        ELSE IF kind(1) = "End" /\ key(1) = seg.start THEN
            IF n = 1 THEN Missing
            ELSE IF kind(2) = "Start" /\ key(2) = seg.end
                 THEN IF n = 2 THEN Missing ELSE Panic
                 ELSE Intersect(key(2))
        ELSE IF kind(1) = "Start" /\ key(1) = seg.end THEN
            IF n = 1 THEN Missing ELSE Panic
        ELSE IF kind(1) \in {"End", "EndStart"} THEN Intersect(seg.start)
        ELSE Intersect(key(1))

Ok(o) == [tag |-> "Ok", val |-> o]
Err(p) == [tag |-> "Err", val |-> Some(p)]

\* get_segment: $missing = Ok(None), $found = |v| Ok(Some(v)).
get_segment(t, seg) ==
    LET r == impl_segment(t, seg)
    IN  CASE r.tag = "Missing" -> Ok(None)
          [] r.tag = "Found" -> Ok(Some(Unwrap(r.val)))
          [] r.tag = "Intersect" -> Err(Unwrap(r.val))
          [] OTHER -> Panic

\* contains_segment: $missing = Ok(false), $found = |_| Ok(true).
contains_segment(t, seg) ==
    LET r == impl_segment(t, seg)
    IN  CASE r.tag = "Missing" -> Ok(FALSE)
          [] r.tag = "Found" -> Ok(TRUE)
          [] r.tag = "Intersect" -> Err(Unwrap(r.val))
          [] OTHER -> Panic

\* The anchor rewriting helpers return [ok, t]: ok = FALSE is a panic.
Done(t) == [ok |-> TRUE, t |-> t]
Fatal(t) == [ok |-> FALSE, t |-> t]

\* add_start that takes an absent key only
add_start_absent_only(t, k) ==
    IF k \notin DOMAIN t THEN Done(MapPut(t, k, Start))
    ELSE Fatal(MapPut(t, k, Start))

add_start(t, k) ==
    IF k \notin DOMAIN t THEN Done(MapPut(t, k, Start))
    ELSE IF t[k].kind = "End" THEN Done(MapPut(t, k, EndStart(Unwrap(t[k].v))))
    ELSE Fatal(MapPut(t, k, Start))

add_end(t, k, x) ==
    IF k \notin DOMAIN t THEN Done(MapPut(t, k, End(x)))
    ELSE IF t[k].kind = "Start" THEN Done(MapPut(t, k, EndStart(x)))
    ELSE Fatal(MapPut(t, k, EndStart(x)))

\* VacantEntry::insert
VacantInsert(t, seg, x) ==
    LET a == add_start(t, seg.start)
    IN  IF ~a.ok THEN a ELSE add_end(a.t, seg.end, x)

\* remove_start that deletes the anchor whatever it also ends
remove_start_delete(t, k) ==
    IF k \notin DOMAIN t THEN Fatal(t)
    ELSE IF t[k].kind \in {"Start", "EndStart"} THEN Done(MapDel(t, k))
    ELSE Fatal(MapPut(t, k, Start))

remove_start(t, k) ==
    IF k \notin DOMAIN t THEN Fatal(t)
    ELSE IF t[k].kind = "Start" THEN Done(MapDel(t, k))
    ELSE IF t[k].kind = "EndStart" THEN Done(MapPut(t, k, End(Unwrap(t[k].v))))
    ELSE Fatal(MapPut(t, k, Start))

\* remove_end returns the payload as well: [ok, t, v].
remove_end(t, k) ==
    IF k \notin DOMAIN t THEN [ok |-> FALSE, t |-> t, v |-> None]
    ELSE IF t[k].kind = "End" THEN [ok |-> TRUE, t |-> MapDel(t, k), v |-> t[k].v]
    ELSE IF t[k].kind = "EndStart" THEN [ok |-> TRUE, t |-> MapPut(t, k, Start), v |-> t[k].v]
    ELSE [ok |-> FALSE, t |-> t, v |-> None]

remove(t, seg) ==
    LET a == remove_start(t, seg.start)
    IN  IF ~a.ok THEN [ok |-> FALSE, t |-> a.t, v |-> None]
        ELSE remove_end(a.t, seg.end)

\* OccupiedEntry::insert that hands the old payload out and keeps it stored.
OccupiedInsert_keep(t, seg, x) ==
    IF seg.end \notin DOMAIN t \/ t[seg.end].kind = "Start"
    THEN [ok |-> FALSE, t |-> t, v |-> None]
    ELSE [ok |-> TRUE, t |-> t, v |-> t[seg.end].v]

\* OccupiedEntry::insert: mem::replace(self.get_mut(), value); both unwraps
\* panic when seg.end holds no payload.
OccupiedInsert(t, seg, x) ==
    IF seg.end \notin DOMAIN t \/ t[seg.end].kind = "Start"
    THEN [ok |-> FALSE, t |-> t, v |-> None]
    ELSE [ok |-> TRUE, t |-> MapPut(t, seg.end, [kind |-> t[seg.end].kind, v |-> Some(x)]),
          v |-> t[seg.end].v]

\* insert_segment: [t, res, back] with res Ok(None) | Ok(Some(old)) | Err |
\* Panic; back is the value that an Err hands back, Err((value, e)).
insert_segment(t, seg, x) ==
    LET c == contains_segment(t, seg)
    IN  CASE c.tag = "Err" -> [t |-> t, res |-> c, back |-> Some(x)]
          [] c.tag = "Panic" -> [t |-> t, res |-> Panic, back |-> None]
          [] c.tag = "Ok" /\ c.val = FALSE ->
                LET i == VacantInsert(t, seg, x)
                IN  [t |-> i.t, res |-> IF i.ok THEN Ok(None) ELSE Panic, back |-> None]
          [] OTHER ->
                LET o == OccupiedInsert(t, seg, x)
                IN  [t |-> o.t, res |-> IF o.ok THEN Ok(o.v) ELSE Panic, back |-> None]

\* remove_segment: [t, res] with res Ok(None) | Ok(Some(v)) | Err | Panic.
remove_segment(t, seg) ==
    LET c == contains_segment(t, seg)
    IN  CASE c.tag = "Err" -> [t |-> t, res |-> c]
          [] c.tag = "Panic" -> [t |-> t, res |-> Panic]
          [] c.tag = "Ok" /\ c.val = FALSE -> [t |-> t, res |-> Ok(None)]
          [] OTHER ->
                LET r == remove(t, seg)
                IN  [t |-> r.t, res |-> IF r.ok THEN Ok(r.v) ELSE Panic]

\* get_containing_segment: None, or Some(<<segment, payload>>).
get_containing_segment(t, point) ==
    LET below == {k \in DOMAIN t : k <= point}
        above == {k \in DOMAIN t : k > point}
    IN  IF below = {} \/ above = {} THEN None
        ELSE LET start_idx == CHOOSE k \in below : \A y \in below : y <= k
                 end_idx == CHOOSE k \in above : \A y \in above : k <= y
             IN  IF t[start_idx].kind = "End" THEN None
                 ELSE IF t[end_idx].kind = "Start" THEN None
                 ELSE Some(<<Seg(start_idx, end_idx), Unwrap(t[end_idx].v)>>)

\* ------------------------------------------------------- the stored segments
\* stored maps each segment whose insert returned Ok(None) (and that no
\* remove has returned since) to the payload last written for it.
StoredPut(st, seg, x) == [s \in (DOMAIN st) \cup {seg} |-> IF s = seg THEN x ELSE st[s]]
StoredDel(st, seg) == [s \in (DOMAIN st) \ {seg} |-> st[s]]
EmptyStored == [s \in {} |-> 0]

Overlap(a, b) == a.start < b.end /\ b.start < a.end

StoredAfterInsert(st, seg, x, res) ==
    IF res.tag # "Ok" THEN st
    ELSE IF res.val = None THEN StoredPut(st, seg, x)
    ELSE IF seg \in DOMAIN st THEN StoredPut(st, seg, x)
    ELSE st

StoredAfterRemove(st, seg, res) ==
    IF res.tag = "Ok" /\ res.val # None THEN StoredDel(st, seg) ELSE st

\* ------------------------------------------------- SegmentTree: the calls
Call(op, seg, x, res) == [op |-> op, seg |-> seg, val |-> x, res |-> res]
NoCall == [op |-> "new", seg |-> None, val |-> None, res |-> Ok(None)]
Alive == ret.res.tag # "Panic"

InitST ==
    /\ tree = EmptyMap
    /\ stored = EmptyStored
    /\ segment_arrays = <<>>
    /\ sats = <<>>
    /\ ret = NoCall
    /\ FdIdle

InsertSegment(seg, x) ==
    /\ Alive
    /\ LET r == insert_segment(tree, seg, x)
       IN  /\ tree' = r.t
           /\ stored' = StoredAfterInsert(stored, seg, x, r.res)
           /\ ret' = Call("insert_segment", Some(seg), Some(x), r.res)
    /\ UNCHANGED <<satVars, fdVars>>

RemoveSegment(seg) ==
    /\ Alive
    /\ LET r == remove_segment(tree, seg)
       IN  /\ tree' = r.t
           /\ stored' = StoredAfterRemove(stored, seg, r.res)
           /\ ret' = Call("remove_segment", Some(seg), None, r.res)
    /\ UNCHANGED <<satVars, fdVars>>

GetSegment(seg) ==
    /\ Alive
    /\ ret' = Call("get_segment", Some(seg), None, get_segment(tree, seg))
    /\ UNCHANGED <<stVars, satVars, fdVars>>

NextST ==
    \/ \E seg \in Segment, x \in Vals : InsertSegment(seg, x)
    \/ \E seg \in Segment : RemoveSegment(seg)
    \/ \E seg \in Segment : GetSegment(seg)

SpecST == InitST /\ [][NextST]_vars

\* ========================================================= SegmentArrayTree
\* A description M: AsRef<[I]>; I carries a segment and a payload that takes
\* part in I's equality (tests::RichSegment.extra, ByteRun.file_offset); M
\* carries data of its own that the tree never looks at (tests: num).
\* The segments handed to the tree have these lengths: over 0..MaxKey they
\* give equal, disjoint, touching, partly overlapping and nested pairs (nested
\* strictly inside, and sharing the start or the end).
SegLens == {1, 3}
SatSegment == {g \in Segment : g.end - g.start \in SegLens}
\* Every segment comes with payload 0; the first one also with payload 1, which
\* is enough for two elements that agree as segments and differ as elements.
Extras(g) == IF g.start = 0 /\ g.end = 1 THEN {0, 1} ELSE {0}
Elem == UNION {{[start |-> g.start, end |-> g.end, extra |-> x] : x \in Extras(g)} : g \in SatSegment}

RECURSIVE SeqsUpTo(_, _)
SeqsUpTo(S, n) ==
    IF n = 0 THEN {<<>>}
    ELSE LET shorter == SeqsUpTo(S, n - 1)
         IN  shorter \cup {Append(q, x) : q \in {r \in shorter : Len(r) = n - 1}, x \in S}

\* num: a description of one element comes with either num, which gives
\* descriptions with equal elements that are not the same value; longer ones
\* come with num 0.
Nums(q) == IF Len(q) = 1 THEN {0, 1} ELSE {0}

\* The descriptions handed to add: FileDescription::new rejects an empty list
\* of runs, so a description holds at least one element. Nothing makes the
\* segments of one description disjoint.
Descs == UNION {{[vec |-> q, num |-> m] : m \in Nums(q)} : q \in SeqsUpTo(Elem, MaxSegs) \ {<<>>}}

\* for<'a> &'a I: Into<Segment<u64>>
ToSeg(el) == Seg(el.start, el.end)

SatOk(idx) == [tag |-> "Ok", val |-> idx]
IntersectingSegment(k) == [tag |-> "IntersectingSegment", val |-> <<k>>]
OverlappingSegmentArrays(k1, k2) == [tag |-> "OverlappingSegmentArrays", val |-> <<k1, k2>>]
IncompatibleSegmentArrays(k) == [tag |-> "IncompatibleSegmentArrays", val |-> <<k>>]

\* The loop of search_intersecting from element i on, idx being the candidate
\* found so far (indices into segment_arrays count from 0, as in the code).
RECURSIVE search_from(_, _, _, _)
search_from(t, vec, i, idx) ==
    IF i > Len(vec) THEN SatOk(idx)
    ELSE LET r == get_segment(t, ToSeg(vec[i]))
         IN  CASE r.tag = "Ok" /\ r.val = None -> search_from(t, vec, i + 1, idx)
               [] r.tag = "Ok" /\ r.val # None ->
                    LET x == Unwrap(r.val)
                        got == IF idx = None THEN Some(x) ELSE idx
                    IN  IF Unwrap(got) # x
                        THEN OverlappingSegmentArrays(Unwrap(got), x)
                        ELSE search_from(t, vec, i + 1, got)
               [] r.tag = "Err" ->
                    LET c == get_containing_segment(t, Unwrap(r.val))
                    IN  IF c = None THEN Panic
                        ELSE IntersectingSegment(Unwrap(c)[2])
               [] OTHER -> Panic

search_intersecting(t, m) == search_from(t, m.vec, 1, None)

\* The loop at the end of add: entry_segment(seg).unwrap(), insert on Vacant.
RECURSIVE insert_from(_, _, _, _, _)
insert_from(t, st, vec, i, idx) ==
    IF i > Len(vec) THEN [ok |-> TRUE, t |-> t, st |-> st]
    ELSE LET seg == ToSeg(vec[i])
             c == contains_segment(t, seg)
         IN  IF c.tag # "Ok" THEN [ok |-> FALSE, t |-> t, st |-> st]
             ELSE IF c.val THEN insert_from(t, st, vec, i + 1, idx)
             ELSE LET a == VacantInsert(t, seg, idx)
                  IN  IF ~a.ok THEN [ok |-> FALSE, t |-> a.t, st |-> st]
                      ELSE insert_from(a.t, StoredPut(st, seg, idx), vec, i + 1, idx)

MinOf(a, b) == IF a <= b THEN a ELSE b

\* The zip loop of add with the elements compared by their segments alone.
Incompatible_by_segment(v1, v2) ==
    \E i \in 1..MinOf(Len(v1), Len(v2)) : ToSeg(v1[i]) # ToSeg(v2[i])

\* The zip loop of add: some pair of the common prefix differs (br1 != br2).
Incompatible(v1, v2) == \E i \in 1..MinOf(Len(v1), Len(v2)) : v1[i] # v2[i]

Added == [tag |-> "Ok", status |-> "Added", m |-> None, e |-> None]
AlreadyContained(m) == [tag |-> "Ok", status |-> "AlreadyContained", m |-> Some(m), e |-> None]
Replaced(m) == [tag |-> "Ok", status |-> "Replaced", m |-> Some(m), e |-> None]
AddErr(m, e) == [tag |-> "Err", status |-> e.tag, m |-> Some(m), e |-> Some(e)]
AddPanic == [tag |-> "Panic", status |-> "Panic", m |-> None, e |-> None]

AddOut(t, st, arr, res) == [t |-> t, st |-> st, arr |-> arr, res |-> res]

\* add, then the insertion of the segments of segment_arrays[idx].
AddInsert(t, st, arr, idx, res) ==
    LET i == insert_from(t, st, arr[idx + 1].vec, 1, idx)
    IN  AddOut(i.t, i.st, arr, IF i.ok THEN res ELSE AddPanic)

\* add with the swap done before the compatibility check.
add_swap_before_check(t, st, arr, m) ==
    LET s == search_intersecting(t, m)
    IN  CASE s.tag = "Panic" -> AddOut(t, st, arr, AddPanic)
          [] s.tag # "Ok" /\ s.tag # "Panic" -> AddOut(t, st, arr, AddErr(m, s))
          [] s.tag = "Ok" /\ s.val = None ->
                AddInsert(t, st, Append(arr, m), Len(arr), Added)
          [] OTHER ->
                LET x == Unwrap(s.val)
                IN  IF x >= Len(arr) THEN AddOut(t, st, arr, AddPanic)
                    ELSE IF Incompatible(m.vec, arr[x + 1].vec)
                    THEN AddOut(t, st, [arr EXCEPT ![x + 1] = m],
                                AddErr(arr[x + 1], IncompatibleSegmentArrays(x)))
                    ELSE IF Len(m.vec) > Len(arr[x + 1].vec)
                    THEN AddInsert(t, st, [arr EXCEPT ![x + 1] = m], x, Replaced(arr[x + 1]))
                    ELSE AddOut(t, st, arr, AlreadyContained(m))

add(t, st, arr, m) ==
    LET s == search_intersecting(t, m)
    IN  CASE s.tag = "Panic" -> AddOut(t, st, arr, AddPanic)
          [] s.tag # "Ok" /\ s.tag # "Panic" -> AddOut(t, st, arr, AddErr(m, s))
          [] s.tag = "Ok" /\ s.val = None ->
                AddInsert(t, st, Append(arr, m), Len(arr), Added)
          [] OTHER ->
                LET x == Unwrap(s.val)
                IN  IF x >= Len(arr) THEN AddOut(t, st, arr, AddPanic)
                    ELSE IF Incompatible(m.vec, arr[x + 1].vec)
                    THEN AddOut(t, st, arr, AddErr(m, IncompatibleSegmentArrays(x)))
                    ELSE IF Len(m.vec) > Len(arr[x + 1].vec)
                    THEN AddInsert(t, st, [arr EXCEPT ![x + 1] = m], x, Replaced(arr[x + 1]))
                    ELSE AddOut(t, st, arr, AlreadyContained(m))

get_by_idx(arr, idx) == arr[idx + 1]

\* ------------------------------------------------ SegmentArrayTree: the calls
\* ret keeps the outcome of the last add: its status and the indices it names.
SatRet(res) ==
    [op |-> "add", tag |-> res.tag, status |-> res.status,
     val |-> IF res.e = None THEN None ELSE Unwrap(res.e).val]
SatNoCall == [op |-> "new", tag |-> "Ok", status |-> "new", val |-> None]
SatAlive == ret.tag # "Panic"

InitSAT ==
    /\ tree = EmptyMap
    /\ stored = EmptyStored
    /\ segment_arrays = <<>>
    /\ sats = <<>>
    /\ ret = SatNoCall
    /\ FdIdle

Add(m) ==
    /\ SatAlive
    /\ \E r \in {add(tree, stored, segment_arrays, m)} :
           /\ Len(r.arr) <= MaxDescs
           /\ tree' = r.t
           /\ stored' = r.st
           /\ segment_arrays' = r.arr
           /\ ret' = SatRet(r.res)
    /\ UNCHANGED <<sats, fdVars>>

NextSAT == \E m \in Descs : Add(m)

SpecSAT == InitSAT /\ [][NextSAT]_vars

\* ========================================================== FileDescription
\* u64, scaled to two bits: the values are 0..Wrap-1 and arithmetic that
\* leaves them panics where overflow checks are compiled in and wraps where
\* they are not.
Wrap == 4
U64 == 0..(Wrap - 1)
Overflows(x) == x < 0 \/ x >= Wrap
WrapU64(x) == (x + Wrap) % Wrap

\* The disk positions the runs start at.
DiskPos == {0, 1}
ByteRun == [file_offset : U64, disk_pos : DiskPos, len : U64]

\* derive(PartialOrd, Ord) on ByteRun: file_offset, then disk_pos, then len.
RunLe(a, b) ==
    \/ a.file_offset < b.file_offset
    \/ a.file_offset = b.file_offset /\ a.disk_pos < b.disk_pos
    \/ a.file_offset = b.file_offset /\ a.disk_pos = b.disk_pos /\ a.len <= b.len

RemoveAt(s, i) == SubSeq(s, 1, i - 1) \o SubSeq(s, i + 1, Len(s))

RECURSIVE sort_unstable(_)
sort_unstable(s) ==
    IF s = <<>> THEN <<>>
    ELSE LET i == CHOOSE k \in 1..Len(s) : \A j \in 1..Len(s) : RunLe(s[k], s[j])
         IN  <<s[i]>> \o sort_unstable(RemoveAt(s, i))

FdOk(runs, size) ==
    [tag |-> "Ok", kind |-> "Ok", args |-> <<>>, runs |-> runs, size |-> size]
FdErr(kind, args) ==
    [tag |-> "Err", kind |-> kind, args |-> args, runs |-> <<>>, size |-> 0]
FdPanic == [tag |-> "Panic", kind |-> "Panic", args |-> <<>>, runs |-> <<>>, size |-> 0]
Empty == FdErr("Empty", <<>>)
PreGap(br) == FdErr("PreGap", <<br>>)
Gap(br, br2) == FdErr("Gap", <<br, br2>>)
FdOverlap(br, br2) == FdErr("Overlap", <<br, br2>>)
Trailing(br2, size) == FdErr("Trailing", <<br2, size>>)
FdMissing(size, off) == FdErr("Missing", <<size, off>>)

\* new, after the loop, with the trim taken from the first run.
new_trim_first(runs, size, off, chk) ==
    IF size > off THEN FdMissing(size, off)
    ELSE FdOk([runs EXCEPT ![1].len = WrapU64(runs[1].len - (off - size))], size)

\* new, after the loop, with the last run left untrimmed.
new_no_trim(runs, size, off, chk) ==
    IF size > off THEN FdMissing(size, off) ELSE FdOk(runs, size)

\* new, after the loop: the Missing check and the trim of the last run.
new_trim(runs, size, off, chk) ==
    IF size > off THEN FdMissing(size, off)
    ELSE LET l == runs[Len(runs)].len - (off - size)
         IN  IF Overflows(l) /\ chk THEN FdPanic
             ELSE FdOk([runs EXCEPT ![Len(runs)].len = WrapU64(l)], size)

\* The loop of new from the i-th run (br2) on; br is the run before it and
\* off the sum of the lengths so far.
RECURSIVE new_loop(_, _, _, _, _)
new_loop(runs, size, i, off, chk) ==
    IF i > Len(runs) THEN new_trim(runs, size, off, chk)
    ELSE LET br == runs[i - 1]
             br2 == runs[i]
         IN  IF off > size THEN Trailing(br2, size)
             ELSE IF br2.file_offset > off THEN Gap(br, br2)
             ELSE IF br2.file_offset < off THEN FdOverlap(br, br2)
             ELSE IF Overflows(off + br2.len) /\ chk THEN FdPanic
             ELSE new_loop(runs, size, i + 1, WrapU64(off + br2.len), chk)

\* FileDescription::new(size, runs) in a build with (chk) or without overflow
\* checks.
new(size, runs, chk) ==
    IF Len(runs) = 0 THEN Empty
    ELSE LET s == sort_unstable(runs)
         IN  IF s[1].file_offset # 0 THEN PreGap(s[1])
             ELSE new_loop(s, size, 2, s[1].len, chk)

size(fd) == fd.size

\* --------------------------------------------------------- FileDescriptionPos
FileDescriptionPos(pos, cur_run, offset_in_run) ==
    [pos |-> pos, cur_run |-> cur_run, offset_in_run |-> offset_in_run]
PosOk(c) == [tag |-> "Ok", val |-> Some(c)]
PosPanic == [tag |-> "Panic", val |-> None]

\* slice::binary_search_by_key on file_offset: Ok(x) for an index holding the
\* key, any of them if there are several, else Err(x) for the insertion point.
\* Indices count from 0.
binary_search_by_key(runs, pos) ==
    LET hits == {x \in 0..(Len(runs) - 1) : runs[x + 1].file_offset = pos}
    IN  IF hits # {} THEN {[ok |-> TRUE, x |-> x] : x \in hits}
        ELSE {[ok |-> FALSE,
               x |-> Cardinality({j \in 1..Len(runs) : runs[j].file_offset < pos})]}

\* at_pos: every cursor the build can produce.
at_pos(fd, pos) ==
    IF pos > fd.size
    THEN {PosOk(FileDescriptionPos(pos, Len(fd.runs), 0))}
    ELSE {IF ~b.ok /\ b.x = 0 THEN PosPanic
          ELSE LET cur_run == IF b.ok THEN b.x ELSE b.x - 1
               IN  IF Overflows(pos - fd.runs[cur_run + 1].file_offset) THEN PosPanic
                   ELSE PosOk(FileDescriptionPos(pos, cur_run,
                                                 pos - fd.runs[cur_run + 1].file_offset))
          : b \in binary_search_by_key(fd.runs, pos)}

DescOk(br) == [tag |-> "Ok", val |-> Some(br)]
DescPanic == [tag |-> "Panic", val |-> None]

desc_read(fd, c, chk) ==
    IF c.cur_run # Len(fd.runs)
    THEN IF c.cur_run > Len(fd.runs) THEN DescPanic
         ELSE LET r == fd.runs[c.cur_run + 1]
                  d == r.disk_pos + c.offset_in_run
                  l == r.len - c.offset_in_run
              IN  IF (Overflows(d) \/ Overflows(l)) /\ chk THEN DescPanic
                  ELSE DescOk([file_offset |-> c.pos, disk_pos |-> WrapU64(d),
                               len |-> WrapU64(l)])
    ELSE DescOk([file_offset |-> c.pos, disk_pos |-> 0, len |-> 0])

adv(fd, c, n, chk) ==
    IF c.cur_run >= Len(fd.runs) THEN PosPanic
    ELSE LET rem == fd.runs[c.cur_run + 1].len - c.offset_in_run
         IN  IF Overflows(rem) /\ chk THEN PosPanic
             ELSE IF n < WrapU64(rem)
             THEN IF (Overflows(c.pos + n) \/ Overflows(c.offset_in_run + n)) /\ chk
                  THEN PosPanic
                  ELSE PosOk(FileDescriptionPos(WrapU64(c.pos + n), c.cur_run,
                                                WrapU64(c.offset_in_run + n)))
             ELSE IF n = WrapU64(rem)
             THEN IF Overflows(c.pos + n) /\ chk THEN PosPanic
                  ELSE PosOk(FileDescriptionPos(WrapU64(c.pos + n), c.cur_run + 1, 0))
             ELSE PosPanic

\* ------------------------------------------------------------ ByteRunsReader
min(a, b) == IF a <= b THEN a ELSE b

ReadRet(n) == [tag |-> "Ok", n |-> n]
ReadPanic == [tag |-> "Panic", n |-> 0]
ReadOut(c, bytes, res) == [c |-> c, bytes |-> bytes, res |-> res]

\* The disk source holds at every position x the byte b(x), written x here;
\* asked for at most max_len bytes at disk_pos it delivers k of them.
inner_read(disk_pos, k) == [i \in 1..k |-> disk_pos + i - 1]

\* ByteRunsReader::read into a buffer of buf_len bytes, the disk source
\* delivering k bytes (1 <= k <= max_len).
read(fd, c, buf_len, k, chk) ==
    LET desc == desc_read(fd, c, chk)
    IN  IF desc.tag = "Panic" THEN ReadOut(c, <<>>, ReadPanic)
        ELSE IF Unwrap(desc.val).len = 0 THEN ReadOut(c, <<>>, ReadRet(0))
        ELSE LET n == min(k, min(buf_len, Unwrap(desc.val).len))
                 a == adv(fd, c, n, chk)
             IN  IF a.tag = "Panic" THEN ReadOut(c, <<>>, ReadPanic)
                 ELSE ReadOut(Unwrap(a.val), inner_read(Unwrap(desc.val).disk_pos, n),
                              ReadRet(n))

\* ---------------------------------------- FileDescription, reader: the calls
Inputs == {[size |-> z, runs |-> q] : z \in U64, q \in SeqsUpTo(ByteRun, MaxRuns)}

InitFD ==
    /\ tree = EmptyMap
    /\ stored = EmptyStored
    /\ segment_arrays = <<>>
    /\ sats = <<>>
    /\ ret = NoCall
    /\ input \in {Some(i) : i \in Inputs}
    /\ overflow_checks \in BOOLEAN
    /\ file = None
    /\ describer = None
    /\ out = <<>>
    /\ n_ret = None

\* FileDescription::new(size, runs)
New ==
    /\ input # None
    /\ file = None
    /\ file' = Some(new(Unwrap(input).size, Unwrap(input).runs, overflow_checks))
    /\ UNCHANGED <<stVars, satVars, overflow_checks, ret, input, describer, out, n_ret>>

\* ByteRunsReader::new(disk, FileDescriptionPos::from(&fd))
Open ==
    /\ file # None
    /\ Unwrap(file).tag = "Ok"
    /\ describer = None
    /\ n_ret = None
    /\ \E p \in at_pos(Unwrap(file), 0) :
           IF p.tag = "Panic"
           THEN n_ret' = Some(ReadPanic) /\ UNCHANGED describer
           ELSE describer' = p.val /\ UNCHANGED n_ret
    /\ UNCHANGED <<stVars, satVars, overflow_checks, ret, input, file, out>>

\* ByteRunsReader::read(buf), until a read returns 0
Read(buf_len, k) ==
    /\ describer # None
    /\ IF n_ret = None THEN TRUE
       ELSE Unwrap(n_ret).tag = "Ok" /\ Unwrap(n_ret).n > 0
    /\ \E r \in {read(Unwrap(file), Unwrap(describer), buf_len, k, overflow_checks)} :
           /\ describer' = Some(r.c)
           /\ out' = out \o r.bytes
           /\ n_ret' = Some(r.res)
    /\ UNCHANGED <<stVars, satVars, overflow_checks, ret, input, file>>

NextFD ==
    \/ New
    \/ Open
    \/ \E buf_len \in 1..MaxBuf, k \in 1..MaxBuf : Read(buf_len, k)

SpecFD == InitFD /\ [][NextFD]_vars

\* ================================================================== claims

\* C1: after any sequence of successful inserts and removes on a SegmentTree,
\* no two distinct stored segments overlap (touching is allowed).
C1_StoredDisjoint ==
    Alive => \A a \in DOMAIN stored, b \in DOMAIN stored :
                a # b => (a.end <= b.start \/ b.end <= a.start)

\* C2: get_segment(q) is Ok(Some(v)) iff q is stored with payload v, Ok(None)
\* iff no stored segment overlaps q, and Err(Intersect) iff some stored
\* segment overlaps q without being equal to it.
C2_GetSegmentClassifies ==
    Alive => \A q \in Segment :
        LET r == get_segment(tree, q)
            exact == q \in DOMAIN stored
            free == \A s \in DOMAIN stored : ~Overlap(s, q)
            partial == \E s \in DOMAIN stored : Overlap(s, q) /\ s # q
        IN  /\ (r.tag = "Ok" /\ r.val # None) <=> exact
            /\ exact => r = Ok(Some(stored[q]))
            /\ (r = Ok(None)) <=> free
            /\ (r.tag = "Err") <=> partial

\* ------------------------------------------------- SegmentArrayTree claims
SegsOf(m) == {ToSeg(m.vec[i]) : i \in 1..Len(m.vec)}
SegSeq(m) == [i \in 1..Len(m.vec) |-> ToSeg(m.vec[i])]
IsPrefix(v, w) == Len(v) <= Len(w) /\ SubSeq(w, 1, Len(v)) = v
Indices == 1..Len(segment_arrays)
LastAdded == segment_arrays[Len(segment_arrays)]

\* C3: no segment of one stored description overlaps or equals a segment of
\* another stored description, and no stored description's segment sequence
\* is a prefix of another's.
C3_DescriptionsDisjoint ==
    SatAlive => \A j \in Indices, k \in Indices : j # k =>
        /\ \A a \in SegsOf(segment_arrays[j]), b \in SegsOf(segment_arrays[k]) : ~Overlap(a, b)
        /\ ~IsPrefix(SegSeq(segment_arrays[j]), SegSeq(segment_arrays[k]))

\* C6: right after add(D) returned Added, adding a description with D's
\* elements returns AlreadyContained of that second argument and changes
\* neither the stored descriptions nor the segment map.
C6_AddTwice ==
    ret.status = "Added" =>
        \A n \in Nums(LastAdded.vec) :
            LET D2 == [vec |-> LastAdded.vec, num |-> n]
                r == add(tree, stored, segment_arrays, D2)
            IN  /\ r.res = AlreadyContained(D2)
                /\ r.arr = segment_arrays
                /\ r.t = tree

\* C7: if D strictly extends the description stored at index k and D's
\* additional segments intersect no stored segment, add(D) returns
\* Replaced(D_k), D is then stored at k, every segment of D maps to k and
\* the other descriptions are unchanged.
StrictExtension(v, w) == Len(v) > Len(w) /\ SubSeq(v, 1, Len(w)) = w

C7_Replaced ==
    SatAlive => \A D \in Descs, k \in Indices :
        ( /\ StrictExtension(D.vec, segment_arrays[k].vec)
          /\ \A i \in (Len(segment_arrays[k].vec) + 1)..Len(D.vec) :
                \A g \in DOMAIN stored : ~Overlap(g, ToSeg(D.vec[i])) )
        => LET r == add(tree, stored, segment_arrays, D)
           IN  /\ r.res = Replaced(segment_arrays[k])
               /\ r.arr = [segment_arrays EXCEPT ![k] = D]
               /\ get_by_idx(r.arr, k - 1) = D
               /\ \A g \in SegsOf(D) : get_segment(r.t, g) = Ok(Some(k - 1))

\* C8: whenever add(D) returns Err((D2, e)), D2 is D and the stored
\* descriptions and the segment map are as they were before the call.
C8_ErrorCarry ==
    SatAlive => \A D \in Descs :
        LET r == add(tree, stored, segment_arrays, D)
        IN  r.res.tag = "Err" =>
                /\ r.res.m = Some(D)
                /\ r.arr = segment_arrays
                /\ r.t = tree

\* An add on a full tree has just failed the compatibility check and handed
\* its argument back.
C8_Witness ==
    /\ ret.op = "add" /\ ret.tag = "Err" /\ ret.status = "IncompatibleSegmentArrays"
    /\ Len(segment_arrays) = MaxDescs

\* C9: when the segment map reports Intersect(point) for a segment of D, the
\* result is IntersectingSegment(k), k owning the stored segment that holds
\* point; such an owner exists and a segment of D_k overlaps one of D.
C9_IntersectingOwner ==
    SatAlive => \A D \in Descs : \A i \in 1..Len(D.vec) :
        ( /\ get_segment(tree, ToSeg(D.vec[i])).tag = "Err"
          /\ search_from(tree, SubSeq(D.vec, 1, i - 1), 1, None).tag = "Ok" )
        => LET p == Unwrap(get_segment(tree, ToSeg(D.vec[i])).val)
               holding == {g \in DOMAIN stored : g.start <= p /\ p < g.end}
           IN  /\ holding # {}
               /\ get_containing_segment(tree, p) # None
               /\ \E g \in holding :
                    /\ search_intersecting(tree, D) = IntersectingSegment(stored[g])
                    /\ add(tree, stored, segment_arrays, D).res
                          = AddErr(D, IntersectingSegment(stored[g]))
                    /\ stored[g] < Len(segment_arrays)
                    /\ \E a \in SegsOf(get_by_idx(segment_arrays, stored[g])),
                          b \in SegsOf(D) : Overlap(a, b)

\* C10: when two segments of D are exactly stored segments of two different
\* owners and no earlier segment of D partially intersects a stored segment,
\* search_intersecting(D) and add(D) return OverlappingSegmentArrays(k1, k2),
\* k1 the owner matched first and k2 the owner of the later match.
ExactAt(D, i) == ToSeg(D.vec[i]) \in DOMAIN stored
OwnerAt(D, i) == stored[ToSeg(D.vec[i])]
PartialAt(D, i) ==
    \E g \in DOMAIN stored : Overlap(g, ToSeg(D.vec[i])) /\ g # ToSeg(D.vec[i])

C10_OverlappingOwners ==
    SatAlive => \A D \in Descs : \A i \in 1..Len(D.vec), j \in 1..Len(D.vec) :
        ( /\ i < j /\ ExactAt(D, i) /\ ExactAt(D, j)
          /\ OwnerAt(D, i) # OwnerAt(D, j)
          /\ \A h \in 1..(i - 1) : ~ExactAt(D, h)
          /\ \A h \in (i + 1)..(j - 1) : ExactAt(D, h) => OwnerAt(D, h) = OwnerAt(D, i)
          /\ \A h \in 1..(j - 1) : ~PartialAt(D, h) )
        => LET e == OverlappingSegmentArrays(OwnerAt(D, i), OwnerAt(D, j))
           IN  /\ search_intersecting(tree, D) = e
               /\ add(tree, stored, segment_arrays, D).res = AddErr(D, e)
               /\ OwnerAt(D, i) < Len(segment_arrays)
               /\ OwnerAt(D, j) < Len(segment_arrays)

\* ---------------------------------------------- FileDescription, reader claims
RECURSIVE SumLen(_)
SumLen(runs) == IF runs = <<>> THEN 0 ELSE runs[1].len + SumLen(Tail(runs))

Accepted == file # None /\ Unwrap(file).tag = "Ok"

\* C4: every FileDescription that new returns Ok has at least one run, its
\* runs sorted by file_offset, the first file_offset 0, each following
\* file_offset equal to the previous file_offset + len, and lengths that sum
\* to size.
C4_AcceptedShape ==
    Accepted =>
        LET runs == Unwrap(file).runs
        IN  /\ Len(runs) >= 1
            /\ \A i \in 1..Len(runs), j \in 1..Len(runs) :
                   i < j => runs[i].file_offset <= runs[j].file_offset
            /\ runs[1].file_offset = 0
            /\ \A i \in 2..Len(runs) :
                   runs[i].file_offset = runs[i - 1].file_offset + runs[i - 1].len
            /\ SumLen(runs) = size(Unwrap(file))

\* new has accepted several runs handed over out of order and trimmed the
\* last of them.
C4_Witness ==
    /\ Accepted
    /\ Len(Unwrap(file).runs) >= 2
    /\ Unwrap(input).runs # Unwrap(file).runs
    /\ SumLen(Unwrap(input).runs) > SumLen(Unwrap(file).runs)
    /\ Unwrap(input).runs[1].file_offset # 0

\* The bytes of the runs in file-offset order: b(disk_pos) .. b(disk_pos + len - 1).
RECURSIVE Expected(_)
Expected(runs) ==
    IF runs = <<>> THEN <<>>
    ELSE [i \in 1..runs[1].len |-> runs[1].disk_pos + i - 1] \o Expected(Tail(runs))

\* C5: reading an accepted file description from position 0 until read
\* returns 0 yields exactly size bytes, the bytes of the runs in file-offset
\* order, whatever the buffer sizes and however short the reads of the disk.
C5_ReadAll ==
    IF Accepted /\ n_ret # None
    THEN /\ Unwrap(n_ret).tag = "Ok"
         /\ Unwrap(n_ret).n = 0 =>
                /\ Len(out) = size(Unwrap(file))
                /\ out = Expected(Unwrap(file).runs)
    ELSE TRUE

\* --------------------------------------------- SegmentArrayTree claims, more
\* Two element sequences differ somewhere in their common prefix, elements
\* compared whole (segment and payload).
Differ(v, w) == \E i \in 1..Len(v) : i <= Len(w) /\ v[i] # w[i]

\* C11: when search_intersecting(D) yields the candidate k, add(D) returns
\* Err((D, IncompatibleSegmentArrays(k))) iff D and D_k differ at a position
\* of their common prefix, elements with the same segment and another
\* payload counting as different; add returns Replaced or AlreadyContained
\* only if the common prefix is equal.
C11_Incompatible ==
    SatAlive => \A D \in Descs :
        LET s == search_intersecting(tree, D)
            r == add(tree, stored, segment_arrays, D)
        IN  (s.tag = "Ok" /\ s.val # None) =>
                /\ Unwrap(s.val) < Len(segment_arrays)
                /\ (r.res = AddErr(D, IncompatibleSegmentArrays(Unwrap(s.val))))
                       <=> Differ(D.vec, get_by_idx(segment_arrays, Unwrap(s.val)).vec)
                /\ r.res.status \in {"Replaced", "AlreadyContained"}
                       => ~Differ(D.vec, get_by_idx(segment_arrays, Unwrap(s.val)).vec)

\* An add has just been refused as incompatible, and some description with
\* the segments of a stored one and another payload is refused that way.
C11_Witness ==
    /\ ret.op = "add" /\ ret.status = "IncompatibleSegmentArrays"
    /\ \E D \in Descs, k \in Indices :
           /\ SegSeq(D) = SegSeq(segment_arrays[k])
           /\ D.vec # segment_arrays[k].vec
           /\ add(tree, stored, segment_arrays, D).res
                  = AddErr(D, IncompatibleSegmentArrays(k - 1))

\* ------------------------------------------------------ SegmentTree claims, more
Holding(p) == {g \in DOMAIN stored : g.start <= p /\ p < g.end}

\* C12: for every key p, get_containing_segment(p) returns a stored segment
\* that holds p (s <= p < e) together with its payload if there is one, and
\* None if there is none; so the start and the last key of a stored segment
\* give that segment, and its end gives None or the segment that starts there.
C12_Containing ==
    Alive => \A p \in Keys :
        LET c == get_containing_segment(tree, p)
        IN  /\ c # None => /\ Unwrap(c)[1] \in Holding(p)
                           /\ Unwrap(c)[2] = stored[Unwrap(c)[1]]
            /\ c = None => Holding(p) = {}

PartlyStored(q) == \E g \in DOMAIN stored : Overlap(g, q) /\ g # q

\* C13: insert_segment(seg, v) on a stored segment with payload old returns
\* Ok(Some(old)) and changes that payload alone; on a segment that overlaps
\* a stored one without being it, it returns Err((v, Intersect(_))) with the
\* v it was given and leaves the map as it was.
C13_InsertExactOrPartial ==
    Alive => \A seg \in Segment, v \in Vals :
        LET r == insert_segment(tree, seg, v)
        IN  /\ (seg \in DOMAIN stored /\ ~PartlyStored(seg)) =>
                   /\ r.res = Ok(Some(stored[seg]))
                   /\ DOMAIN r.t = DOMAIN tree
                   /\ \A k \in DOMAIN tree :
                          /\ r.t[k].kind = tree[k].kind
                          /\ k # seg.end => r.t[k] = tree[k]
                   /\ r.t[seg.end].v = Some(v)
            /\ PartlyStored(seg) =>
                   /\ r.res.tag = "Err"
                   /\ r.back = Some(v)
                   /\ r.t = tree

\* C14: whenever insert_segment(seg, v) returns Ok, with or without an old
\* payload, get_segment(seg) right after it returns Ok(Some(v)) and
\* contains_segment(seg) returns Ok(true).
C14_InsertThenGet ==
    Alive => \A seg \in Segment, v \in Vals :
        LET r == insert_segment(tree, seg, v)
        IN  r.res.tag = "Ok" =>
                /\ get_segment(r.t, seg) = Ok(Some(v))
                /\ contains_segment(r.t, seg) = Ok(TRUE)

\* An insert has just replaced the payload of a stored segment by another
\* one, and the segment is found with the new payload.
C14_Witness ==
    /\ ret.op = "insert_segment"
    /\ ret.res.tag = "Ok" /\ ret.res.val # None
    /\ ret.res.val # ret.val
    /\ get_segment(tree, Unwrap(ret.seg)) = Ok(ret.val)

\* C15: remove_segment(seg) returns Ok(Some(v)) when seg is stored with
\* payload v, and get_segment(seg) then returns Ok(None); it returns
\* Ok(None), the map unchanged, when seg is not in the map (no stored segment
\* overlaps it).
C15_Remove ==
    Alive => \A seg \in Segment :
        LET r == remove_segment(tree, seg)
        IN  /\ seg \in DOMAIN stored =>
                   /\ r.res = Ok(Some(stored[seg]))
                   /\ get_segment(r.t, seg) = Ok(None)
            /\ (\A g \in DOMAIN stored : ~Overlap(g, seg)) =>
                   /\ r.res = Ok(None)
                   /\ r.t = tree

\* ------------------------------------------------ FileDescription claims, more
FileRuns == Unwrap(file).runs
InRuns == Unwrap(input).runs
InSize == Unwrap(input).size

\* C16: every run of an accepted FileDescription has a length above 0, the
\* trimmed last run too, whatever the size and the runs handed to new.
C16_PositiveLengths ==
    Accepted => \A i \in 1..Len(FileRuns) : FileRuns[i].len > 0

\* The disk segment [disk_pos, disk_pos + len) of a run.
DiskSegment(br) == Seg(br.disk_pos, br.disk_pos + br.len)

\* C17: the disk segments of the runs of an accepted FileDescription are
\* pairwise disjoint.
C17_DiskDisjoint ==
    Accepted => \A i \in 1..Len(FileRuns), j \in 1..Len(FileRuns) :
        i # j => ~Overlap(DiskSegment(FileRuns[i]), DiskSegment(FileRuns[j]))

\* The runs handed to new, in sorted order, and the sum of the lengths of the
\* first k of them.
Sorted == sort_unstable(InRuns)
RunningSum(k) == SumLen(SubSeq(Sorted, 1, k))
\* The first k sorted runs start at 0 and follow one another without gap or
\* overlap.
ChainUpTo(k) ==
    /\ k >= 1 => Sorted[1].file_offset = 0
    /\ \A i \in 2..k : Sorted[i].file_offset = RunningSum(i - 1)

\* C19: when a run begins at a file offset at or past size, exactly at size
\* included, new fails with Trailing(r, size), r being the first such run in
\* sorted order (the runs before r and r itself being in place).
C19_Trailing ==
    (input # None /\ file # None) =>
        \A k \in 1..Len(InRuns) :
            ( /\ Sorted[k].file_offset >= InSize
              /\ \A i \in 1..(k - 1) : Sorted[i].file_offset < InSize
              /\ ChainUpTo(k) )
            => Unwrap(file) = Trailing(Sorted[k], InSize)

\* The number of times the run br occurs in the sequence s.
Count(s, br) == Cardinality({i \in 1..Len(s) : s[i] = br})
Last(s) == s[Len(s)]

\* C20: on success new changes nothing but the length of the last run in
\* sorted order, which it reduces by (total length - size); every other run
\* and the file_offset and disk_pos of the last one are as handed over, and
\* size() is the size asked for.
C20_TrimOnly ==
    Accepted =>
        /\ Len(Sorted) = Len(InRuns)
        /\ \A br \in ByteRun : Count(Sorted, br) = Count(InRuns, br)
        /\ \A i \in 1..Len(Sorted), j \in 1..Len(Sorted) : i < j => RunLe(Sorted[i], Sorted[j])
        /\ Len(FileRuns) = Len(Sorted)
        /\ \A i \in 1..(Len(Sorted) - 1) : FileRuns[i] = Sorted[i]
        /\ Last(FileRuns).file_offset = Last(Sorted).file_offset
        /\ Last(FileRuns).disk_pos = Last(Sorted).disk_pos
        /\ Last(FileRuns).len = Last(Sorted).len - (SumLen(Sorted) - InSize)
        /\ size(Unwrap(file)) = InSize

\* new has accepted three runs handed over out of order and taken a part of
\* the last one away.
C20_Witness ==
    /\ Accepted
    /\ Len(FileRuns) = 3
    /\ InRuns # Sorted
    /\ Last(FileRuns).len > 0
    /\ Last(FileRuns).len < Last(Sorted).len

\* None of the first k sorted runs begins at or past size.
NoneTrailing(k) == \A j \in 1..k : Sorted[j].file_offset < InSize

\* C18: with the runs in sorted order, new fails with Empty if there is no
\* run, with PreGap(r_0) if r_0 does not begin at 0, with Overlap(r_i, r_i+1)
\* if r_i+1 begins below the sum of the lengths up to r_i, with Gap(r_i,
\* r_i+1) if it begins above it, and with Missing(size, total) if the total
\* length is below size; each for the first failure in that order, no run up
\* to there beginning at or past size.
C18_Errors ==
    (input # None /\ file # None) =>
        /\ Len(InRuns) = 0 => Unwrap(file) = Empty
        /\ (Len(InRuns) > 0 /\ Sorted[1].file_offset # 0)
               => Unwrap(file) = PreGap(Sorted[1])
        /\ \A i \in 1..(Len(InRuns) - 1) :
               (ChainUpTo(i) /\ NoneTrailing(i + 1)) =>
                   /\ Sorted[i + 1].file_offset < RunningSum(i)
                          => Unwrap(file) = FdOverlap(Sorted[i], Sorted[i + 1])
                   /\ Sorted[i + 1].file_offset > RunningSum(i)
                          => Unwrap(file) = Gap(Sorted[i], Sorted[i + 1])
        /\ (Len(InRuns) > 0 /\ ChainUpTo(Len(InRuns)) /\ SumLen(Sorted) < InSize)
               => Unwrap(file) = FdMissing(InSize, SumLen(Sorted))

\* ------------------------------------------------- FileDescriptionPos::seek
\* i64, scaled with u64 to two bits
I64 == (0 - (Wrap \div 2))..((Wrap \div 2) - 1)

\* i64::wrapping_neg: the negation, wrapped into i64
wrapping_neg(x) == IF 0 - x > (Wrap \div 2) - 1 THEN 0 - x - Wrap ELSE 0 - x

\* the cast `as u64` of an i64
as_u64(x) == (x + Wrap) % Wrap

checked_add(a, b) == IF a + b >= Wrap THEN None ELSE Some(a + b)
checked_sub(a, b) == IF a - b < 0 THEN None ELSE Some(a - b)

SeekStart(x) == [from |-> "Start", x |-> x]
SeekCurrent(x) == [from |-> "Current", x |-> x]
SeekEnd(x) == [from |-> "End", x |-> x]
SeekFrom ==
    {SeekStart(x) : x \in U64} \cup {SeekCurrent(x) : x \in I64}
        \cup {SeekEnd(x) : x \in I64}

SeekOk(x, c) == [c |-> c, res |-> [tag |-> "Ok", n |-> x]]
SeekErr(c) == [c |-> c, res |-> [tag |-> "Err", n |-> 0]]
SeekPanic(c) == [c |-> c, res |-> [tag |-> "Panic", n |-> 0]]

\* mem::swap(self, &mut self._ref.at_pos(x)); return Ok(x)
seek_to(fd, c, x) ==
    {IF p.tag = "Panic" THEN SeekPanic(c) ELSE SeekOk(x, Unwrap(p.val))
     : p \in at_pos(fd, x)}

\* seek with the offset cast to u64 whatever its sign
seek_new_pos_cast(base_pos, offset) == checked_add(base_pos, as_u64(offset))

seek_new_pos(base_pos, offset) ==
    IF offset >= 0 THEN checked_add(base_pos, as_u64(offset))
    ELSE checked_sub(base_pos, as_u64(wrapping_neg(offset)))

\* seek: every outcome the build can produce
seek(fd, c, pos) ==
    IF pos.from = "Start" THEN seek_to(fd, c, pos.x)
    ELSE LET base_pos == IF pos.from = "Current" THEN c.pos ELSE fd.size
             new_pos == seek_new_pos(base_pos, pos.x)
         IN  IF new_pos = None THEN {SeekErr(c)}
             ELSE seek_to(fd, c, Unwrap(new_pos))

\* ------------------------------------- ByteRunsReader over a failing source
ReadErr(e) == [tag |-> "Err", n |-> 0, e |-> e]
IoErrors == {"SeekFailed", "ReadFailed"}

\* read when the disk source fails with e, in its seek or in its read: the
\* and_then chain stops there and adv is not called.
read_failing(fd, c, buf_len, e, chk) ==
    LET desc == desc_read(fd, c, chk)
    IN  IF desc.tag = "Panic" THEN ReadOut(c, <<>>, ReadPanic)
        ELSE IF Unwrap(desc.val).len = 0 THEN ReadOut(c, <<>>, ReadRet(0))
        ELSE ReadOut(c, <<>>, ReadErr(e))

\* ------------------------------------------- positioned reader: the calls
\* the last call on the reader: its arguments, the cursor before it (None
\* when there was none) and its result
RdCall(op, arg, was, res) == [op |-> op, arg |-> arg, was |-> was, res |-> res]

\* ByteRunsReader::new(disk, fd.at_pos(p))
AtPos(p) ==
    /\ file # None
    /\ Unwrap(file).tag = "Ok"
    /\ describer = None
    /\ ret = NoCall
    /\ \E r \in at_pos(Unwrap(file), p) :
           /\ describer' = r.val
           /\ ret' = RdCall("at_pos", p, None, [tag |-> r.tag, n |-> p])
    /\ UNCHANGED <<stVars, satVars, overflow_checks, input, file, out, n_ret>>

\* ByteRunsReader::seek(pos); out holds the bytes delivered since
Seek(pos) ==
    /\ describer # None
    /\ ret.res.tag # "Panic"
    /\ \E r \in seek(Unwrap(file), Unwrap(describer), pos) :
           /\ describer' = Some(r.c)
           /\ ret' = RdCall("seek", pos, describer, r.res)
    /\ out' = <<>>
    /\ n_ret' = None
    /\ UNCHANGED <<stVars, satVars, overflow_checks, input, file>>

\* ByteRunsReader::read(buf), the disk source delivering k bytes
ReadOn(buf_len, k) ==
    /\ describer # None
    /\ ret.res.tag # "Panic"
    /\ \E r \in {read(Unwrap(file), Unwrap(describer), buf_len, k, overflow_checks)} :
           /\ describer' = Some(r.c)
           /\ out' = out \o r.bytes
           /\ n_ret' = Some(r.res)
           /\ ret' = RdCall("read", [buf_len |-> buf_len, k |-> k], describer, r.res)
    /\ UNCHANGED <<stVars, satVars, overflow_checks, input, file>>

\* ByteRunsReader::read(buf), the disk source failing with e
ReadFails(buf_len, e) ==
    /\ describer # None
    /\ ret.res.tag # "Panic"
    /\ \E r \in {read_failing(Unwrap(file), Unwrap(describer), buf_len, e, overflow_checks)} :
           /\ describer' = Some(r.c)
           /\ out' = out \o r.bytes
           /\ n_ret' = Some(r.res)
           /\ ret' = RdCall("read", [buf_len |-> buf_len, e |-> e], describer, r.res)
    /\ UNCHANGED <<stVars, satVars, overflow_checks, input, file>>

NextRD ==
    \/ New
    \/ \E p \in U64 : AtPos(p)
    \/ \E pos \in SeekFrom : Seek(pos)
    \/ \E buf_len \in 1..MaxBuf, k \in 0..MaxBuf : ReadOn(buf_len, k)
    \/ \E buf_len \in 1..MaxBuf, e \in IoErrors : ReadFails(buf_len, e)

SpecRD == InitFD /\ [][NextRD]_vars

\* ------------------------------------------------------------------ C21
\* the cursor was placed at p by at_pos(p) or seek(Start(p)) in the last call
PlacedAt(p) ==
    /\ Accepted
    /\ \/ ret.op = "at_pos" /\ ret.arg = p
       \/ ret.op = "seek" /\ ret.arg = SeekStart(p)

\* run i of the description holds position p (the last position of the
\* stream, p = size, is held by a run ending there)
RunContains(fd, i, p) ==
    /\ fd.runs[i].file_offset <= p
    /\ IF p < fd.size THEN p < fd.runs[i].file_offset + fd.runs[i].len
       ELSE p <= fd.runs[i].file_offset + fd.runs[i].len

DescAt(fd, i, p) ==
    [file_offset |-> p,
     disk_pos |-> fd.runs[i].disk_pos + (p - fd.runs[i].file_offset),
     len |-> fd.runs[i].file_offset + fd.runs[i].len - p]

\* C21: after at_pos(p) or seek(Start(p)) on an accepted description the call
\* has succeeded and the cursor is at pos = p; for p <= size desc_read()
\* returns file_offset = p with the disk position and the remaining length
\* of the run containing p; for p > size desc_read() returns len = 0.
C21_SeekConsistency ==
    \A p \in U64 :
        PlacedAt(p) =>
            /\ ret.res.tag = "Ok"
            /\ describer # None
            /\ Unwrap(describer).pos = p
            /\ LET d == desc_read(Unwrap(file), Unwrap(describer), overflow_checks)
               IN  /\ d.tag = "Ok"
                   /\ IF p <= size(Unwrap(file))
                      THEN \E i \in 1..Len(Unwrap(file).runs) :
                               /\ RunContains(Unwrap(file), i, p)
                               /\ Unwrap(d.val) = DescAt(Unwrap(file), i, p)
                      ELSE Unwrap(d.val).len = 0

\* ------------------------------------------------------------------ C22
\* the last call was seek(Current(d)) or seek(End(d)) on an accepted description
RelativeSeek ==
    /\ Accepted
    /\ ret.op = "seek"
    /\ ret.arg.from \in {"Current", "End"}

\* base + d over the integers
SeekTarget ==
    (IF ret.arg.from = "Current" THEN Unwrap(ret.was).pos ELSE size(Unwrap(file)))
        + ret.arg.x

\* C22: seek(Current(d)) and seek(End(d)) compute base + d exactly: when the
\* sum is a u64 the call returns Ok(base + d) and the cursor is the one of
\* that position; otherwise it returns an error and the cursor is unchanged.
C22_RelativeSeek ==
    RelativeSeek =>
        IF 0 <= SeekTarget /\ SeekTarget < Wrap
        THEN /\ ret.res = [tag |-> "Ok", n |-> SeekTarget]
             /\ Unwrap(describer).pos = SeekTarget
             /\ PosOk(Unwrap(describer)) \in at_pos(Unwrap(file), SeekTarget)
        ELSE /\ ret.res.tag = "Err"
             /\ describer = ret.was

\* a seek by the least i64 that succeeded
C22_Witness ==
    /\ RelativeSeek
    /\ ret.arg.x = 0 - (Wrap \div 2)
    /\ ret.res.tag = "Ok"

\* ------------------------------------------------------------------ C23
\* the last call was a read on an accepted description
ReadCall == Accepted /\ ret.op = "read"

\* what is left of the run under the cursor the read started from, and the
\* disk position of the cursor, over the integers
LeftInRun ==
    LET c == Unwrap(ret.was)
    IN  IF c.cur_run < Len(FileRuns) THEN FileRuns[c.cur_run + 1].len - c.offset_in_run
        ELSE 0
DiskAt ==
    LET c == Unwrap(ret.was)
    IN  IF c.cur_run < Len(FileRuns) THEN FileRuns[c.cur_run + 1].disk_pos + c.offset_in_run
        ELSE 0

\* C23: a read delivers k <= min(|buf|, what is left of the current run)
\* bytes, the source's bytes from the disk position of the cursor on, moves
\* the cursor by k (pos' = pos + k) and returns k, k being what the source
\* returned; when the source fails the read returns that error and the
\* cursor is the one before the call.
C23_ReadOneRun ==
    ReadCall =>
        IF LeftInRun = 0
        THEN ret.res = ReadRet(0) /\ describer = ret.was
        ELSE IF "e" \in DOMAIN ret.arg
        THEN ret.res = ReadErr(ret.arg.e) /\ describer = ret.was
        ELSE /\ ret.res = ReadRet(min(ret.arg.k, min(ret.arg.buf_len, LeftInRun)))
             /\ Unwrap(describer).pos = Unwrap(ret.was).pos + ret.res.n
             /\ Len(out) >= ret.res.n
             /\ \A i \in 1..ret.res.n :
                    out[Len(out) - ret.res.n + i] = DiskAt + i - 1

\* ----------------------------------------------- reading on, without seeks
\* the caller reads again and again with a buffer that is not empty, from a
\* disk source that delivers at least one byte of every request
ReadAgain == \E buf_len \in 1..MaxBuf, k \in 1..MaxBuf : ReadOn(buf_len, k)

NextReadAgain ==
    \/ New
    \/ \E p \in U64 : AtPos(p)
    \/ ReadAgain

\* the caller does not stop calling read
SpecReadAgain == InitFD /\ [][NextReadAgain]_vars /\ WF_vars(ReadAgain)

\* ------------------------------------------------------------------ C24
\* the last read returned Ok(0)
AtEof == n_ret = Some(ReadRet(0))

\* C24: once a reader stands at a position of an accepted description, its
\* reads eventually return Ok(0); a read after one that returned Ok(0) returns
\* Ok(0) again and leaves the cursor where it was.
C24_ReadsEnd ==
    /\ (describer # None) ~> AtEof
    /\ [][AtEof => (AtEof' /\ describer' = describer)]_vars

\* ------------------------------------------------ photorec-merge: main
MaxRecords == 3

\* SegmentArrayTree::new()
NewSat == [t |-> EmptyMap, st |-> EmptyStored, arr |-> <<>>]

\* what report.iter() yields: Err(e), or Ok((name, desc)) with a name that
\* ends with ".jpg" or not
Records ==
    {[tag |-> "Err", jpg |-> FALSE, desc |-> None]}
        \cup {[tag |-> "Ok", jpg |-> j, desc |-> Some(m)] : j \in BOOLEAN, m \in Descs}

RouteOut(ss, offers, tag) == [sats |-> ss, offers |-> offers, tag |-> tag]

\* the loop that keeps on after an Ok
RECURSIVE route_from_no_break(_, _, _, _)
route_from_no_break(ss, fdwc, num, offers) ==
    IF num >= Len(ss) THEN RouteOut(ss, offers, "Kept")
    ELSE LET sat == ss[num + 1]
             arm(r) ==
                 LET all == Append(offers, [tag |-> r.res.tag, status |-> r.res.status])
                 IN  IF r.res.tag = "Panic" THEN RouteOut(ss, all, "Panic")
                     ELSE route_from_no_break(
                              [ss EXCEPT ![num + 1] =
                                   [t |-> r.t, st |-> r.st, arr |-> r.arr]],
                              fdwc, num + 1, all)
         IN  arm(add(sat.t, sat.st, sat.arr, fdwc))

\* the loop over sats.iter_mut().enumerate() from tree num on (counted from
\* 0); offers holds what the adds so far returned, arm is the match on the
\* result of sat.add(fdwc).
RECURSIVE route_from(_, _, _, _)
route_from(ss, fdwc, num, offers) ==
    IF num >= Len(ss) THEN RouteOut(ss, offers, "Rejected")
    ELSE LET sat == ss[num + 1]
             arm(r) ==
                 LET all == Append(offers, [tag |-> r.res.tag, status |-> r.res.status])
                 IN  CASE r.res.tag = "Panic" -> RouteOut(ss, all, "Panic")
                       [] r.res.tag = "Err" ->
                             IF \E idx \in {Unwrap(r.res.e).val[i] :
                                                i \in 1..Len(Unwrap(r.res.e).val)} :
                                    idx >= Len(sat.arr)
                             THEN RouteOut(ss, all, "Panic")
                             ELSE route_from(ss, Unwrap(r.res.m), num + 1, all)
                       [] OTHER ->
                             RouteOut([ss EXCEPT ![num + 1] =
                                           [t |-> r.t, st |-> r.st, arr |-> r.arr]],
                                      all, "Kept")
         IN  arm(add(sat.t, sat.st, sat.arr, fdwc))

\* the body of `for r in report.iter()`: one record
route(ss, rec) ==
    IF rec.tag = "Err" THEN RouteOut(ss, <<>>, "ParseError")
    ELSE IF ~rec.jpg THEN RouteOut(ss, <<>>, "Skipped")
    ELSE LET push(out1) ==
                 LET add_new_tree == Len(out1.offers) = Len(ss)
                 IN  IF out1.tag # "Panic" /\ add_new_tree
                     THEN RouteOut(Append(out1.sats, NewSat), out1.offers, out1.tag)
                     ELSE out1
         IN  push(route_from(ss, Unwrap(rec.desc), 0, <<>>))

\* the last record handled: which one (n, counted from 1), the record, the
\* list of trees before it, what the adds returned and how it ended
MergeCall(n, rec, was, out1) ==
    [op |-> "record", n |-> n, rec |-> rec, was |-> was,
     offers |-> out1.offers, res |-> [tag |-> out1.tag]]

\* let mut sats = vec![SegmentArrayTree::new()]
InitMerge ==
    /\ tree = EmptyMap
    /\ stored = EmptyStored
    /\ segment_arrays = <<>>
    /\ sats = <<NewSat>>
    /\ ret = MergeCall(0, [tag |-> "Err", jpg |-> FALSE, desc |-> None], <<>>,
                       RouteOut(<<>>, <<>>, "main"))
    /\ FdIdle

Record(rec) ==
    /\ ret.res.tag # "Panic"
    /\ ret.n < MaxRecords
    /\ \E r \in {route(sats, rec)} :
           /\ sats' = r.sats
           /\ ret' = MergeCall(ret.n + 1, rec, sats, r)
    /\ UNCHANGED <<stVars, segment_arrays, fdVars>>

NextMerge == \E rec \in Records : Record(rec)

SpecMerge == InitMerge /\ [][NextMerge]_vars

\* ------------------------------------------------------------------ C25
\* the last record was a successfully parsed description
Parsed == ret.op = "record" /\ ret.n > 0 /\ ret.rec.tag = "Ok"

\* what add returns for the description on tree i of the list before
AddOn(i) ==
    add(ret.was[i].t, ret.was[i].st, ret.was[i].arr, Unwrap(ret.rec.desc))
Rejects(i) == AddOn(i).res.tag = "Err"

\* the description was offered to the trees 1..j in this order and to no
\* other, tree j took it as its add says, and every other tree is as before
KeptBy(j) ==
    /\ \A i \in 1..(j - 1) : Rejects(i)
    /\ AddOn(j).res.tag = "Ok"
    /\ Len(ret.offers) = j
    /\ \A i \in 1..j : ret.offers[i].status = AddOn(i).res.status
    /\ sats[j] = [t |-> AddOn(j).t, st |-> AddOn(j).st, arr |-> AddOn(j).arr]
    /\ \A i \in 1..Len(ret.was) : i # j => sats[i] = ret.was[i]

\* C25: each successfully parsed description is offered to the trees in
\* list order, is kept by the first tree whose add does not return an error
\* and is offered to no later tree; every tree that rejects it is unchanged.
C25_RoutedInOrder ==
    Parsed => \E j \in 1..Len(ret.was) : KeptBy(j)


\* ------------------------------------------------------------------ C26
\* C26: while a description is routed the list grows by one tree exactly
\* when its last tree rejects the description, not when the last tree or an
\* earlier one accepts it.
C26_NewTreeOnReject ==
    (Parsed /\ ret.rec.jpg) =>
        (Len(sats) = Len(ret.was) + 1 <=> Rejects(Len(ret.was)))

\* ------------------------------------------------------------ ReportXml
\* format!("{}", n) of a u64: its decimal digits
RECURSIVE format(_)
format(n) == IF n < 10 THEN <<n>> ELSE Append(format(n \div 10), n % 10)

\* str::parse::<u64>() on a string of digits: None when it is empty or
\* does not fit a u64
parse(s) ==
    LET RECURSIVE acc(_, _)
        acc(i, v) ==
            IF i > Len(s) THEN Some(v)
            ELSE IF v * 10 + s[i] >= Wrap THEN None
            ELSE acc(i + 1, v * 10 + s[i])
    IN  IF Len(s) = 0 THEN None ELSE acc(1, 0)

\* the element with offset and img_offset taking each other's value
from_file_description_swapped(name, fd) ==
    [name |-> "fileobject", filename |-> name, filesize |-> format(size(fd)),
     byte_runs |-> [i \in 1..Len(fd.runs) |->
                        [offset |-> format(fd.runs[i].disk_pos),
                         img_offset |-> format(fd.runs[i].file_offset),
                         len |-> format(fd.runs[i].len)]]]

\* the fileobject element of a description
from_file_description_and_name(name, fd) ==
    [name |-> "fileobject", filename |-> name, filesize |-> format(size(fd)),
     byte_runs |-> [i \in 1..Len(fd.runs) |->
                        [offset |-> format(fd.runs[i].file_offset),
                         img_offset |-> format(fd.runs[i].disk_pos),
                         len |-> format(fd.runs[i].len)]]]

\* the description of a fileobject element: Ok((name, fd)), an error of the
\* parser, or the panic of FileDescription::new
to_file_description(elem, chk) ==
    LET sz == parse(elem.filesize)
        attrs == {parse(elem.byte_runs[i][a]) :
                      i \in 1..Len(elem.byte_runs), a \in {"offset", "img_offset", "len"}}
    IN  IF sz = None THEN [tag |-> "Err", kind |-> "MalformedText", val |-> None]
        ELSE IF None \in attrs THEN [tag |-> "Err", kind |-> "MalformedAttr", val |-> None]
        ELSE LET byte_runs ==
                     [i \in 1..Len(elem.byte_runs) |->
                          [file_offset |-> Unwrap(parse(elem.byte_runs[i].offset)),
                           disk_pos |-> Unwrap(parse(elem.byte_runs[i].img_offset)),
                           len |-> Unwrap(parse(elem.byte_runs[i].len))]]
                 fd == new(Unwrap(sz), byte_runs, chk)
             IN  IF fd.tag = "Panic" THEN [tag |-> "Panic", kind |-> "Panic", val |-> None]
                 ELSE IF fd.tag # "Ok"
                 THEN [tag |-> "Err", kind |-> "BadFileDescription", val |-> None]
                 ELSE [tag |-> "Ok", kind |-> "Ok", val |-> Some(<<elem.filename, fd>>)]

\* ReportXml::from_iter(pairs).iter(), collected: the fileobject elements in
\* their order, each turned back into a description
report_iter(pairs, chk) ==
    LET elems == [i \in 1..Len(pairs) |->
                      from_file_description_and_name(pairs[i][1], pairs[i][2])]
    IN  [i \in 1..Len(elems) |-> to_file_description(elems[i], chk)]

Names == {"a", "b"}

\* a report of the accepted description under one or two names, built and
\* iterated
Report(names) ==
    /\ Accepted
    /\ ret = NoCall
    /\ ret' = RdCall("report", names, None,
                     [tag |-> "Ok",
                      items |-> report_iter([i \in 1..Len(names) |->
                                                 <<names[i], Unwrap(file)>>],
                                            overflow_checks)])
    /\ UNCHANGED <<stVars, satVars, fdVars>>

NextReport ==
    \/ New
    \/ \E names \in SeqsUpTo(Names, 2) \ {<<>>} : Report(names)

SpecReport == InitFD /\ [][NextReport]_vars

\* ------------------------------------------------------------------ C27
\* C27: a report built from (name, description) pairs yields, iterated, the
\* same names in the same order, each with a description of the same size
\* and the same byte-runs: FileDescription::new on the size and the runs of
\* an accepted description returns that description.
C27_ReportRoundTrip ==
    ret.op = "report" =>
        /\ Len(ret.res.items) = Len(ret.arg)
        /\ \A i \in 1..Len(ret.arg) :
               /\ ret.res.items[i].tag = "Ok"
               /\ Unwrap(ret.res.items[i].val)[1] = ret.arg[i]
               /\ size(Unwrap(ret.res.items[i].val)[2]) = size(Unwrap(file))
               /\ Unwrap(ret.res.items[i].val)[2].runs = FileRuns

\* a report of two names over a description whose last run was trimmed and
\* that holds a zero-length run
C27_Witness ==
    /\ ret.op = "report"
    /\ ret.arg = <<"b", "a">>
    /\ Len(FileRuns) > 1
    /\ FileRuns # sort_unstable(InRuns)
    /\ \E i \in 1..Len(FileRuns) : FileRuns[i].len = 0

\* ------------------------------------------------------------------ C28
\* the anchors of the tree in key order
Anchors == SortKeys(DOMAIN tree)
KindAt(i) == tree[Anchors[i]].kind

\* C28: the anchors in key order form a balanced bracket sequence: the first
\* is a Start, a Start or EndStart is followed by an End or EndStart, an End
\* is the last anchor or followed by a Start, and an End or EndStart at key e
\* holds the payload of the stored segment that ends at e.
C28_Brackets ==
    Alive =>
        /\ Len(Anchors) > 0 => KindAt(1) = "Start"
        /\ \A i \in 1..Len(Anchors) :
               /\ KindAt(i) \in {"Start", "EndStart"} =>
                      i < Len(Anchors) /\ KindAt(i + 1) \in {"End", "EndStart"}
               /\ KindAt(i) = "End" =>
                      i = Len(Anchors) \/ KindAt(i + 1) = "Start"
               /\ KindAt(i) \in {"End", "EndStart"} =>
                      \E g \in DOMAIN stored :
                          /\ g.end = Anchors[i]
                          /\ tree[Anchors[i]].v = Some(stored[g])
                          /\ \A h \in DOMAIN stored : h.end = g.end => h = g

\* ------------------------------------------------------------------ C29
\* C29: no sequence of insert_segment, remove_segment and get_segment calls
\* on segments with start < end reaches a fatal branch, and neither does a
\* query or a call on the state reached.
C29_NoFatal ==
    /\ Alive
    /\ \A seg \in Segment :
           /\ impl_segment(tree, seg).tag # "Panic"
           /\ \A x \in Vals : insert_segment(tree, seg, x).res.tag # "Panic"
           /\ remove_segment(tree, seg).res.tag # "Panic"

\* a stored segment was removed next to one that stays: an EndStart anchor
\* is still in the tree
C29_Witness ==
    /\ ret.op = "remove_segment"
    /\ ret.res.tag = "Ok"
    /\ ret.res.val # None
    /\ \E k \in DOMAIN tree : tree[k].kind = "EndStart"

\* ------------------------------------------------------------------ C30
\* C30: when a query on [s,e) is classified Intersect(point), s <= point <= e
\* and point lies inside a stored segment that overlaps the query, which
\* get_containing_segment(&point) returns.
C30_IntersectPoint ==
    Alive => \A seg \in Segment :
        LET r == impl_segment(tree, seg)
        IN  r.tag = "Intersect" =>
                /\ seg.start <= Unwrap(r.val)
                /\ Unwrap(r.val) <= seg.end
                /\ \E g \in Holding(Unwrap(r.val)) :
                       /\ Overlap(g, seg)
                       /\ get_containing_segment(tree, Unwrap(r.val))
                              = Some(<<g, stored[g]>>)

\* ------------------------------------------------------------------ C31
\* C31: after any sequence of add calls, every segment of the stored
\* description D_k is stored in the segment map with value k, and every
\* segment the map stores with value k is a segment of D_k.
C31_MapMatchesDescriptions ==
    SatAlive =>
        \A k \in Indices :
            /\ \A g \in SegsOf(segment_arrays[k]) :
                   get_segment(tree, g) = Ok(Some(k - 1))
            /\ \A g \in Segment :
                   get_segment(tree, g) = Ok(Some(k - 1)) =>
                       g \in SegsOf(segment_arrays[k])

\* ------------------------------------------------------------------ C32
\* C32: in every reachable state, once search_intersecting has succeeded on
\* a description, every entry_segment lookup of add's insertion loop
\* succeeds: add never aborts after it has changed the vector or the map.
C32_InsertNeverAborts ==
    /\ SatAlive
    /\ \A D \in Descs :
           search_intersecting(tree, D).tag = "Ok" =>
               add(tree, stored, segment_arrays, D).res.tag # "Panic"

\* ------------------------------------------------------------------ C35
\* C35: an add that returns Added appends its description and leaves the
\* others in place; any other add that returns leaves the number of
\* descriptions unchanged; the description at an index changes only when
\* the add returns Replaced for that index (and becomes the added one); and
\* every index carried by an error or returned by search_intersecting is
\* below the number of stored descriptions, a valid argument of get_by_idx.
C35_IndicesStable ==
    SatAlive => \A D \in Descs :
        LET r == add(tree, stored, segment_arrays, D)
            s == search_intersecting(tree, D)
            n == Len(segment_arrays)
        IN  /\ r.res.tag # "Panic" =>
                /\ Len(r.arr) = IF r.res.status = "Added" THEN n + 1 ELSE n
                /\ r.res.status = "Added" => get_by_idx(r.arr, n) = D
                /\ \A k \in Indices :
                       get_by_idx(r.arr, k - 1) # get_by_idx(segment_arrays, k - 1) =>
                           /\ r.res = Replaced(segment_arrays[k])
                           /\ s = SatOk(Some(k - 1))
                           /\ get_by_idx(r.arr, k - 1) = D
                /\ r.res.tag = "Err" =>
                       \A j \in DOMAIN Unwrap(r.res.e).val :
                           Unwrap(r.res.e).val[j] \in 0..(n - 1)
            /\ (s.tag = "Ok" /\ s.val # None) => Unwrap(s.val) \in 0..(n - 1)

\* the description at index 0 was replaced by a longer one while another
\* description is stored behind it
C35_Witness ==
    /\ ret.op = "add" /\ ret.status = "Replaced"
    /\ Len(segment_arrays) = MaxDescs
    /\ Len(segment_arrays[1].vec) = MaxSegs

\* ------------------------------------------- FileDescriptionPos on its own
\* DescRead::adv(n) on the cursor, called within its contract:
\* n <= desc_read().len
Adv(n) ==
    /\ describer # None
    /\ ret.res.tag # "Panic"
    /\ \E d \in {desc_read(Unwrap(file), Unwrap(describer), overflow_checks)} :
           /\ d.tag = "Ok"
           /\ n <= Unwrap(d.val).len
    /\ \E r \in {adv(Unwrap(file), Unwrap(describer), n, overflow_checks)} :
           /\ describer' = IF r.tag = "Ok" THEN r.val ELSE describer
           /\ ret' = RdCall("adv", n, describer, [tag |-> r.tag, n |-> n])
    /\ UNCHANGED <<stVars, satVars, overflow_checks, input, file, out, n_ret>>

NextCursor ==
    \/ New
    \/ \E p \in U64 : AtPos(p)
    \/ \E pos \in SeekFrom : Seek(pos)
    \/ \E n \in U64 : Adv(n)

SpecCursor == InitFD /\ [][NextCursor]_vars

\* ------------------------------------------------------------------ C33
\* C33: every cursor reached through at_pos, seek and adv calls within the
\* adv contract is either at EOF (cur_run = number of runs, pos >= size) or
\* inside its run: file_offset <= pos < file_offset + len of runs[cur_run],
\* with offset_in_run = pos - file_offset.
C33_CursorInRun ==
    (Accepted /\ describer # None /\ ret.res.tag # "Panic") =>
        LET fd == Unwrap(file)
            c == Unwrap(describer)
        IN  \/ c.cur_run = Len(fd.runs) /\ c.pos >= size(fd)
            \/ /\ c.cur_run < Len(fd.runs)
               /\ fd.runs[c.cur_run + 1].file_offset <= c.pos
               /\ c.pos < fd.runs[c.cur_run + 1].file_offset + fd.runs[c.cur_run + 1].len
               /\ c.offset_in_run = c.pos - fd.runs[c.cur_run + 1].file_offset

\* ------------------------------------------------------------------ C34
\* C34: at every reachable cursor and for every n <= desc_read().len, adv(n)
\* succeeds and increases pos by n; for n below the remaining length of the
\* current run the cursor stays in the run with offset_in_run increased by
\* n, for n equal to it the cursor goes to offset 0 of the next run (EOF
\* after the last); adv(n) with n above the remaining length is fatal.
C34_Adv ==
    (Accepted /\ describer # None /\ ret.res.tag # "Panic") =>
        LET fd == Unwrap(file)
            c == Unwrap(describer)
            d == desc_read(fd, c, overflow_checks)
        IN  d.tag = "Ok" =>
              \A n \in U64 :
                LET a == adv(fd, c, n, overflow_checks)
                    rem == IF c.cur_run < Len(fd.runs)
                           THEN fd.runs[c.cur_run + 1].len - c.offset_in_run
                           ELSE 0
                IN  /\ n <= Unwrap(d.val).len =>
                        /\ a.tag = "Ok"
                        /\ Unwrap(a.val).pos = c.pos + n
                        /\ n < rem =>
                               /\ Unwrap(a.val).cur_run = c.cur_run
                               /\ Unwrap(a.val).offset_in_run = c.offset_in_run + n
                        /\ n = rem =>
                               /\ Unwrap(a.val).offset_in_run = 0
                               /\ Unwrap(a.val).cur_run =
                                      IF c.cur_run < Len(fd.runs) THEN c.cur_run + 1
                                      ELSE Len(fd.runs)
                    /\ n > rem => a.tag = "Panic"

\* ------------------------------------------------------------------ C36
\* C36: a successful insert or remove of seg leaves the lookup result of
\* every other stored segment unchanged: a segment t # seg for which
\* get_segment returned Ok(Some(w)) before the call still does afterwards,
\* also when t touches seg at an endpoint.
C36_Frame ==
    Alive => \A seg \in Segment, t \in DOMAIN stored :
        (t # seg /\ get_segment(tree, t) = Ok(Some(stored[t]))) =>
            /\ \A x \in Vals :
                   LET r == insert_segment(tree, seg, x)
                   IN  r.res.tag = "Ok" =>
                           get_segment(r.t, t) = Ok(Some(stored[t]))
            /\ LET r == remove_segment(tree, seg)
               IN  r.res.tag = "Ok" =>
                       get_segment(r.t, t) = Ok(Some(stored[t]))

\* ------------------------------------------------------------------ C37
\* C37: inserting a vacant segment and then removing it restores the anchor
\* map exactly (same keys, kinds and payloads), also when the segment
\* touches stored neighbours on one or on both sides, and the remove returns
\* the inserted payload.
C37_InsertRemove ==
    Alive => \A seg \in Segment, x \in Vals :
        LET r == insert_segment(tree, seg, x)
        IN  r.res = Ok(None) =>
                LET u == remove_segment(r.t, seg)
                IN  /\ u.res = Ok(Some(x))
                    /\ u.t = tree

\* a segment that touched stored neighbours on both sides was inserted and
\* has just been removed again, the neighbours still in the map
C37_Witness ==
    /\ ret.op = "remove_segment"
    /\ ret.res.tag = "Ok" /\ ret.res.val # None
    /\ \E a \in DOMAIN stored, b \in DOMAIN stored :
           /\ a.end = Unwrap(ret.seg).start
           /\ b.start = Unwrap(ret.seg).end
           /\ get_segment(tree, a) = Ok(Some(stored[a]))
           /\ get_segment(tree, b) = Ok(Some(stored[b]))
           /\ insert_segment(tree, Unwrap(ret.seg), Unwrap(ret.res.val)).res = Ok(None)

\* ------------------------------------------------------------------ C38
\* C38: every successfully parsed description that passes the name filter
\* is accepted (Added, AlreadyContained or Replaced) by some tree of the
\* list, the last tree of the list being empty when its routing starts.
C38_NoneDropped ==
    (Parsed /\ ret.rec.jpg) =>
        /\ ret.was[Len(ret.was)] = NewSat
        /\ ret.res.tag = "Kept"
        /\ Len(ret.offers) \in 1..Len(ret.was)
        /\ ret.offers[Len(ret.offers)].tag = "Ok"
        /\ ret.offers[Len(ret.offers)].status \in {"Added", "AlreadyContained", "Replaced"}

\* ------------------------------------------------------------------ C39
\* C39: FileDescription::new never overflows u64 arithmetic: for every
\* input either new returns an error, or it returns a description, the sum
\* of the run lengths is below 2^64 and so is the disk segment end
\* disk_pos + len of every run of the description; it never aborts.
C39_NoOverflow ==
    file # None =>
        \/ Unwrap(file).tag = "Err"
        \/ /\ Unwrap(file).tag = "Ok"
           /\ ~Overflows(SumLen(Unwrap(input).runs))
           /\ \A i \in 1..Len(Unwrap(file).runs) :
                  ~Overflows(DiskSegment(Unwrap(file).runs[i]).end)

\* ------------------------------------------------------- ByteRunsReaderAt
\* The disk source R: ReadFileLike of a reader: it holds len bytes (byte x at
\* position x), hands out at most chunk bytes a call, or fails every call.
Sources == [len : 0..Wrap, chunk : 1..MaxBuf, fails : BOOLEAN]

\* self.inner.read_at(buf2, disk_pos) with |buf2| = max_len: the number of
\* bytes the source delivers
inner_read_at(src, disk_pos, max_len) ==
    min(max_len, min(src.chunk, IF disk_pos < src.len THEN src.len - disk_pos ELSE 0))

\* ByteRunsReaderAt::new(reader, describer) over an accepted description
InitReadAt ==
    /\ tree = EmptyMap
    /\ stored = EmptyStored
    /\ segment_arrays = <<>>
    /\ sats = <<>>
    /\ ret = NoCall
    /\ input = None
    /\ overflow_checks \in BOOLEAN
    /\ file \in {Some(f) : f \in {g \in {new(i.size, i.runs, overflow_checks) : i \in Inputs} :
                                      g.tag = "Ok"}}
    /\ describer = None
    /\ out = <<>>
    /\ n_ret = None

\* read_at(buf, offset) up to the loop: bytes_read = 0 (the length of out)
\* and the cursor of at_pos(offset)
ReadAt(buf_len, offset, src) ==
    /\ ret = NoCall
    /\ \E p \in at_pos(Unwrap(file), offset) :
           /\ describer' = p.val
           /\ ret' = RdCall("read_at", [buf_len |-> buf_len, offset |-> offset, inner |-> src],
                            None,
                            [tag |-> IF p.tag = "Panic" THEN "Panic" ELSE "Running", n |-> 0])
    /\ UNCHANGED <<stVars, satVars, overflow_checks, input, file, out, n_ret>>

\* one turn of the loop of read_at
ReadAtLoop ==
    /\ ret.op = "read_at"
    /\ ret.res.tag = "Running"
    /\ LET fd == Unwrap(file)
           c == Unwrap(describer)
           buf_len == ret.arg.buf_len
           bytes_read == Len(out)
           return(tag, n) == ret' = [ret EXCEPT !.res = [tag |-> tag, n |-> n]]
       IN  \E desc \in {desc_read(fd, c, overflow_checks)} :
             IF desc.tag = "Panic"
             THEN return("Panic", 0) /\ UNCHANGED <<describer, out>>
             ELSE IF Unwrap(desc.val).len = 0
             THEN return("Ok", bytes_read) /\ UNCHANGED <<describer, out>>
             ELSE IF ret.arg.inner.fails
             THEN return("Err", 0) /\ UNCHANGED <<describer, out>>
             ELSE IF Unwrap(desc.val).len < buf_len - bytes_read
             THEN \E n \in {inner_read_at(ret.arg.inner, Unwrap(desc.val).disk_pos,
                                          Unwrap(desc.val).len)} :
                    \E a \in {adv(fd, c, n, overflow_checks)} :
                      IF a.tag = "Panic"
                      THEN return("Panic", 0) /\ UNCHANGED <<describer, out>>
                      ELSE /\ describer' = a.val
                           /\ out' = out \o inner_read(Unwrap(desc.val).disk_pos, n)
                           /\ UNCHANGED ret
             ELSE \E n \in {inner_read_at(ret.arg.inner, Unwrap(desc.val).disk_pos,
                                          buf_len - bytes_read)} :
                    /\ out' = out \o inner_read(Unwrap(desc.val).disk_pos, n)
                    /\ IF bytes_read + n = buf_len
                       THEN return("Ok", bytes_read + n)
                       ELSE return("Panic", 0)
                    /\ UNCHANGED describer
    /\ UNCHANGED <<stVars, satVars, overflow_checks, input, file, n_ret>>

NextReadAt ==
    \/ \E buf_len \in 0..MaxBuf, offset \in U64, src \in Sources :
           ReadAt(buf_len, offset, src)
    \/ ReadAtLoop

\* the loop runs on until it breaks
SpecReadAt == InitReadAt /\ [][NextReadAt]_vars /\ WF_vars(ReadAtLoop)

\* ------------------------------------------------------------------ C40
\* the bytes of the file from offset on, at most n of them
ContentFrom(offset, n) ==
    LET all == Expected(Unwrap(file).runs)
    IN  IF offset >= Len(all) THEN <<>>
        ELSE SubSeq(all, offset + 1, min(Len(all), offset + n))

\* C40: read_at terminates for every buffer, offset and disk source, and
\* what it returns is a count n <= min(|buf|, size - offset) with the n
\* bytes of the file's content from offset on in the buffer (or the error of
\* the source), also when the source delivers fewer bytes than asked for, or
\* none.
C40_ReadAtTerminates ==
    /\ (ret.op = "read_at") ~> (ret.res.tag \in {"Ok", "Err"})
    /\ [](ret.op = "read_at" =>
            /\ ret.res.tag # "Panic"
            /\ ret.res.tag = "Ok" =>
                  /\ ret.res.n <= ret.arg.buf_len
                  /\ ret.arg.offset <= size(Unwrap(file)) =>
                         ret.res.n <= size(Unwrap(file)) - ret.arg.offset
                  /\ ret.arg.offset > size(Unwrap(file)) => ret.res.n = 0
                  /\ SubSeq(out, 1, ret.res.n) = ContentFrom(ret.arg.offset, ret.res.n))

====
